---- MODULE Spec2Model ----
(***************************************************************************)
(* Model of grafana_utils/api_key_generator.py: the provisioning workflow  *)
(* of main (local check, post_org, switch_org, create_api_token, write,    *)
(* verify) run by invocations that share one Grafana server and a file     *)
(* system.  Every action is one step of main at the granularity of a       *)
(* remote request/response or a file operation, which is the granularity   *)
(* at which separate processes interleave.                                  *)
(***************************************************************************)
EXTENDS Integers, Sequences, FiniteSets, TLC

VARIABLES
    orgs,       \* remote: the organizations, a set of [id, name]
    activeOrg,  \* remote: the active organization of the (shared) grafana user
    keys,       \* remote: the keys issued, [id, name, asked, org, by, run, target]
    files,      \* local: path -> content of the file
    pc,         \* per invocation: position in main
    name,       \* per invocation: GRAFANA_NAME
    file,       \* per invocation: API_KEY_FILE (NoFile when -f was not given)
    org_id,     \* per invocation: the local org_id of main
    data,       \* per invocation: the local data of post_org (list answer)
    api_key,    \* per invocation: the local api_key of main
    outcome,    \* per invocation: how main ended
    calls,      \* per invocation: number of requests sent, per endpoint
    createAns,  \* per invocation: the answer its create request got
    switchAns,  \* per invocation: the answer its switch request got
    seen,       \* per invocation: file content read by the first local check
    wrote,      \* per invocation: number of times it wrote its store file
    hist,       \* per invocation: its earlier, finished runs, [outcome, wrote]
    args        \* per invocation: the argument list main has still to parse

vars == <<orgs, activeOrg, keys, files, pc, name, file, org_id, data, api_key,
          outcome, calls, createAns, switchAns, seen, wrote, hist, args>>

remoteVars == <<orgs, activeOrg, keys>>

(***************************************************************************)
(* Bounds and universes                                                    *)
(***************************************************************************)
\* number of sequential runs of one invocation slot in SpecSeq
MaxRuns == 3

Procs == {"p1", "p2"}

\* organization names given with -n / --name (default 'trusted')
Names == {"acme", "trusted"}

\* the organization every Grafana server starts with
MainOrgName == "Main Org."

Paths == {"f1", "f2"}

\* API_KEY_FILE = None
NoFile == "None"

\* return None / org_id None
None == 0

Missing == "<missing>"

(***************************************************************************)
(* JSON values and file contents.  A value is [kind, elems, name, id]:     *)
(* elems is what Python's `x in data` answers for x in {"key","name",      *)
(* "message"}: the fields of an object, the elements of a list, the        *)
(* substrings of a string.  name and id are the 'name' and 'id' fields of  *)
(* an object.  The secret of a key is identified with its id.               *)
(***************************************************************************)
Val(k, e, n, i) == [kind |-> k, elems |-> e, name |-> n, id |-> i]

PyNone == Val("None", {}, Missing, 0)

Dict(e, n, i) == Val("dict", e, n, i)

\* content of a file: no file, text that is not JSON (the empty file
\* included), or the JSON text of a value
Absent == Val("absent", {}, Missing, 0)

NonJson == Val("nonjson", {}, Missing, 0)

JsonNull == Val("null", {}, Missing, 0)

JsonObject(e, n, i) == Val("object", e, n, i)

\* the record a successful issue-key call returns and main stores
KeyRecord(n, i) == Dict({"id", "key", "name"}, n, i)

\* json.dump(api_key, file): None is written as null, a dict as an object
json_dump(v) ==
    IF v.kind = "None" THEN JsonNull
    ELSE IF v.kind = "dict" THEN JsonObject(v.elems, v.name, v.id)
    ELSE v

\* json.load(file) under `except JSONDecodeError: data = {}`
json_load(c) ==
    IF c.kind = "nonjson" THEN Dict({}, Missing, 0)
    ELSE IF c.kind = "null" THEN PyNone
    ELSE IF c.kind = "object" THEN Dict(c.elems, c.name, c.id)
    ELSE c

\* contents a store file can hold before main runs; a record stored by an
\* earlier provisioning carries a key id that no key of this run gets
StoredRecord(n) == json_dump(KeyRecord(n, 7))

FileContents ==
    {Absent, NonJson, JsonNull,
     Val("number", {}, Missing, 0),
     Val("string", {}, Missing, 0),
     Val("string", {"key", "name"}, Missing, 0),
     Val("list", {}, Missing, 0),
     Val("list", {"key", "name"}, Missing, 0),
     JsonObject({"name"}, "acme", 0),
     JsonObject({"key", "name"}, "acme", 0),
     JsonObject({"key"}, Missing, 0),
     JsonObject({"message"}, Missing, 0)}
    \cup {StoredRecord(n) : n \in Names}

(***************************************************************************)
(* check_api_key_file: "True", "False", or the exception it raises         *)
(***************************************************************************)
\* mutant: the name comparison inverted
check_api_key_file_inverted(n, c) ==
    IF c.kind = "absent" THEN "False"
    ELSE LET d == json_load(c) IN
         IF d.kind \in {"None", "number"} THEN "TypeError"
         ELSE IF "key" \in d.elems /\ "name" \in d.elems
              THEN IF d.kind # "dict" THEN "TypeError"
                   ELSE IF d.name # n THEN "True" ELSE "False"
              ELSE "False"

\* mutant: the comparison of data['name'] with the name is missing
check_api_key_file_no_name_test(n, c) ==
    IF c.kind = "absent" THEN "False"
    ELSE LET d == json_load(c) IN
         IF d.kind \in {"None", "number"} THEN "TypeError"
         ELSE IF "key" \in d.elems /\ "name" \in d.elems
              THEN IF d.kind # "dict" THEN "TypeError" ELSE "True"
              ELSE "False"

check_api_key_file(n, c) ==
    IF c.kind = "absent" THEN "False"
    ELSE LET d == json_load(c) IN
         IF d.kind \in {"None", "number"} THEN "TypeError"
         ELSE IF "key" \in d.elems /\ "name" \in d.elems
              THEN IF d.kind # "dict" THEN "TypeError"
                   ELSE IF d.name = n THEN "True" ELSE "False"
              ELSE "False"

(***************************************************************************)
(* Answers of the Grafana server.  An answer is [kind, msg, val]: kind     *)
(* "transport" is a requests.exceptions.RequestException, "garbled" a body *)
(* json.loads rejects, "json" a parsed body; msg is the 'message' field    *)
(* (Missing when the body has none) and val the orgId of a create answer.  *)
(***************************************************************************)
Answer(k, m, v) == [kind |-> k, msg |-> m, val |-> v]

Transport == Answer("transport", Missing, 0)

Garbled == Answer("garbled", Missing, 0)

Json(m, v) == Answer("json", m, v)

MsgCreated == "Organization created"

MsgTaken == "Organization name taken"

MsgInvalid == "invalid username or password"

MsgChanged == "Active organization changed"

\* a message the script has no branch for
MsgOther == "Internal server error"

NextOrgId == 1 + Cardinality(orgs)

NextKeyId == 1 + Cardinality(keys)

OrgNamed(n) == {o \in orgs : o.name = n}

\* what POST /api/orgs {name: n} can answer, and the organizations after it
CreateOrgAnswers(n) ==
    {<<Transport, orgs>>, <<Garbled, orgs>>,
     <<Json(Missing, 0), orgs>>,
     <<Json(MsgInvalid, 0), orgs>>,
     <<Json(MsgOther, 0), orgs>>}
    \cup (IF OrgNamed(n) # {}
          THEN {<<Json(MsgTaken, 0), orgs>>}
          ELSE {<<Json(MsgCreated, NextOrgId),
                  orgs \cup {[id |-> NextOrgId, name |-> n]}>>})

\* every ordering of the elements of S
RECURSIVE Orderings(_)
Orderings(S) ==
    IF S = {} THEN {<<>>}
    ELSE UNION {{<<x>> \o t : t \in Orderings(S \ {x})} : x \in S}

\* what GET /api/orgs can answer: the organizations the user is shown, in
\* any order
ListOrgsAnswers == UNION {Orderings(S) : S \in SUBSET orgs}

\* what POST /api/user/using/<id> can answer, and the active organization
\* after it; the change is confirmed only for an organization that exists
SwitchAnswers(id) ==
    {<<Transport, activeOrg>>, <<Garbled, activeOrg>>,
     <<Json(Missing, 0), activeOrg>>,
     <<Json(MsgOther, 0), activeOrg>>}
    \cup (IF \E o \in orgs : o.id = id
          THEN {<<Json(MsgChanged, 0), id>>}
          ELSE {})

(***************************************************************************)
(* post_org, after the POST: the branch taken on data['message']           *)
(***************************************************************************)
post_org_branch(a) ==
    IF a.msg = Missing THEN "KeyError"
    ELSE IF a.msg = MsgTaken THEN "lookup"
    ELSE IF a.msg = MsgCreated THEN "return_created"
    ELSE IF a.msg = MsgInvalid THEN "raise_invalid"
    ELSE "return_None"

\* the for loop of post_org over the list answer
\* mutant: the name test of the loop is missing
scan_orgs_first_entry(l, n) ==
    IF l = <<>> THEN None ELSE Head(l).id

\* mutant: the loop keeps the last entry instead of returning on the match
scan_orgs_last_entry(l, n) ==
    IF l = <<>> THEN None ELSE l[Len(l)].id

RECURSIVE scan_orgs(_, _)
scan_orgs(l, n) ==
    IF l = <<>> THEN None
    ELSE IF Head(l).name = n THEN Head(l).id
    ELSE scan_orgs(Tail(l), n)

\* switch_org: whether the answer is accepted (no OrganizationError)
\* mutant: only the presence of 'message' is tested
switch_org_accepts_any_message(a) == a.msg # Missing

switch_org_accepts(a) == ~ (a.msg = Missing \/ ~ (a.msg = MsgChanged))

(***************************************************************************)
(* main, one action per step                                               *)
(***************************************************************************)
NoCalls == [create |-> 0, list |-> 0, switch |-> 0, issue |-> 0]

NoAnswer == Answer("none", Missing, 0)

Count(p, endpoint) == [calls EXCEPT ![p][endpoint] = @ + 1]

\* main ends: a returned status, or the exception that ended it
End(p, how) ==
    /\ pc' = [pc EXCEPT ![p] = "done"]
    /\ outcome' = [outcome EXCEPT ![p] = how]

Goto(p, where) ==
    /\ pc' = [pc EXCEPT ![p] = where]
    /\ UNCHANGED outcome

\* the exception a failed request ends main with: RequestException is
\* caught and re-raised as SystemExit, the ValueError of json.loads is not
RequestFailure(a) == IF a.kind = "transport" THEN "SystemExit" ELSE "JSONDecodeError"

\* mutant: exit(0) on both branches
exit_code_always_zero(how) == 0

\* the exit status of the process: 0 for a returned status with success True
\* and for --help, 1 for a status with success False, for SystemExit(error)
\* and for an uncaught exception
exit_code(how) ==
    IF how \in {"API key already exists", "API key created", "help"} THEN 0 ELSE 1

\* the flags of main that take the next argument as their value
ValueFlags ==
    {"-H", "--host", "-P", "--port", "-u", "--user", "-p", "--pass",
     "-n", "--name", "-f", "--file"}

\* mutant: del args[0] is missing
ParseArgs_keeps_argument(p) ==
    /\ pc[p] = "parse_args"
    /\ IF args[p] = <<>>
       THEN Goto(p, "check_arguments") /\ UNCHANGED <<name, file, args>>
       ELSE LET cur == Head(args[p]) IN
            IF cur \in {"-h", "--help"}
            THEN End(p, "help") /\ UNCHANGED <<name, file, args>>
            ELSE IF cur \in ValueFlags /\ Len(args[p]) < 2
            THEN End(p, "IndexError") /\ UNCHANGED <<name, file, args>>
            ELSE /\ name' = [name EXCEPT ![p] =
                               IF cur \in {"-n", "--name"} THEN args[p][2] ELSE @]
                 /\ file' = [file EXCEPT ![p] =
                               IF cur \in {"-f", "--file"} THEN args[p][2] ELSE @]
                 /\ UNCHANGED <<pc, outcome, args>>
    /\ UNCHANGED <<remoteVars, files, org_id, data, api_key, calls, createAns,
                   switchAns, seen, wrote, hist>>

\* one test of `while args` and, when it holds, one pass through the body:
\* --help exits 0, a flag copies args[1] (IndexError when there is none),
\* and del args[0] drops the argument looked at
ParseArgs(p) ==
    /\ pc[p] = "parse_args"
    /\ IF args[p] = <<>>
       THEN Goto(p, "check_arguments") /\ UNCHANGED <<name, file, args>>
       ELSE LET cur == Head(args[p]) IN
            IF cur \in {"-h", "--help"}
            THEN End(p, "help") /\ UNCHANGED <<name, file, args>>
            ELSE IF cur \in ValueFlags /\ Len(args[p]) < 2
            THEN End(p, "IndexError") /\ UNCHANGED <<name, file, args>>
            ELSE /\ name' = [name EXCEPT ![p] =
                               IF cur \in {"-n", "--name"} THEN args[p][2] ELSE @]
                 /\ file' = [file EXCEPT ![p] =
                               IF cur \in {"-f", "--file"} THEN args[p][2] ELSE @]
                 /\ args' = [args EXCEPT ![p] = Tail(@)]
                 /\ UNCHANGED <<pc, outcome>>
    /\ UNCHANGED <<remoteVars, files, org_id, data, api_key, calls, createAns,
                   switchAns, seen, wrote, hist>>

\* mutant: api_key_file is left out of argument_list
check_arguments_without_file(n, f) == "None"

\* check_arguments: MissingArgumentError when an argument is None, else
\* None.  GRAFANA_NAME, user, password, host and port have defaults and are
\* only ever replaced by strings, so api_key_file alone can be None.
check_arguments(n, f) == IF f = NoFile THEN "MissingArgumentError" ELSE "None"

\* try: check_arguments(...) except MissingArgumentError: raise SystemExit
CheckArguments(p) ==
    /\ pc[p] = "check_arguments"
    /\ IF check_arguments(name[p], file[p]) = "MissingArgumentError"
       THEN End(p, "SystemExit")
       ELSE Goto(p, "check_local")
    /\ UNCHANGED <<remoteVars, files, name, file, org_id, data, api_key, calls,
                   createAns, switchAns, seen, wrote, hist, args>>

\* mutant: the early return on api_exists is missing
CheckLocal_always_provisions(p) ==
    /\ pc[p] = "check_local"
    /\ LET r == check_api_key_file(name[p], files[file[p]]) IN
           IF r \in {"True", "False"} THEN Goto(p, "post_org") ELSE End(p, r)
    /\ seen' = [seen EXCEPT ![p] = files[file[p]]]
    /\ UNCHANGED <<remoteVars, files, name, file, org_id, data, api_key, calls,
                   createAns, switchAns, wrote, hist, args>>

\* api_exists = check_api_key_file(...); if api_exists: return status
CheckLocal(p) ==
    /\ pc[p] = "check_local"
    /\ LET r == check_api_key_file(name[p], files[file[p]]) IN
           IF r = "True" THEN End(p, "API key already exists")
           ELSE IF r = "False" THEN Goto(p, "post_org")
           ELSE End(p, r)
    /\ seen' = [seen EXCEPT ![p] = files[file[p]]]
    /\ UNCHANGED <<remoteVars, files, name, file, org_id, data, api_key, calls,
                   createAns, switchAns, wrote, hist, args>>

\* post_org up to the dispatch on data['message']
PostOrg(p) ==
    /\ pc[p] = "post_org"
    /\ calls' = Count(p, "create")
    /\ \E ans \in CreateOrgAnswers(name[p]) :
         LET a == ans[1] IN
         /\ orgs' = ans[2]
         /\ createAns' = [createAns EXCEPT ![p] = a]
         /\ IF a.kind # "json"
            THEN End(p, RequestFailure(a)) /\ UNCHANGED org_id
            ELSE LET b == post_org_branch(a) IN
                 IF b = "KeyError" THEN End(p, "KeyError") /\ UNCHANGED org_id
                 ELSE IF b = "raise_invalid"
                      THEN End(p, "SystemExit") /\ UNCHANGED org_id
                 ELSE IF b = "lookup" THEN Goto(p, "get_orgs") /\ UNCHANGED org_id
                 ELSE IF b = "return_created"
                      THEN Goto(p, "switch_org")
                           /\ org_id' = [org_id EXCEPT ![p] = a.val]
                 ELSE Goto(p, "switch_org")
                      /\ org_id' = [org_id EXCEPT ![p] = None]
    /\ UNCHANGED <<activeOrg, keys, files, name, file, data, api_key,
                   switchAns, seen, wrote, hist, args>>

\* post_org, name taken: response = requests.get(url); data = json.loads(...)
\* mutant: the list request is sent again after a failed attempt
GetOrgs_retries(p) ==
    /\ pc[p] = "get_orgs"
    /\ calls' = Count(p, "list")
    /\ \/ \E a \in {Transport, Garbled} :
            Goto(p, "get_orgs") /\ UNCHANGED data
       \/ \E l \in ListOrgsAnswers :
            Goto(p, "scan_orgs") /\ data' = [data EXCEPT ![p] = l]
    /\ UNCHANGED <<remoteVars, files, name, file, org_id, api_key,
                   createAns, switchAns, seen, wrote, hist, args>>

GetOrgs(p) ==
    /\ pc[p] = "get_orgs"
    /\ calls' = Count(p, "list")
    /\ \/ \E a \in {Transport, Garbled} :
            End(p, RequestFailure(a)) /\ UNCHANGED data
       \/ \E l \in ListOrgsAnswers :
            Goto(p, "scan_orgs") /\ data' = [data EXCEPT ![p] = l]
    /\ UNCHANGED <<remoteVars, files, name, file, org_id, api_key,
                   createAns, switchAns, seen, wrote, hist, args>>

\* post_org, name taken: the for loop and the return
ScanOrgs(p) ==
    /\ pc[p] = "scan_orgs"
    /\ org_id' = [org_id EXCEPT ![p] = scan_orgs(data[p], name[p])]
    /\ data' = [data EXCEPT ![p] = <<>>]
    /\ Goto(p, "switch_org")
    /\ UNCHANGED <<remoteVars, files, name, file, api_key, calls,
                   createAns, switchAns, seen, wrote, hist, args>>

\* switch_org(org_id, ...)
SwitchOrg(p) ==
    /\ pc[p] = "switch_org"
    /\ calls' = Count(p, "switch")
    /\ \E ans \in SwitchAnswers(org_id[p]) :
         LET a == ans[1] IN
         /\ activeOrg' = ans[2]
         /\ switchAns' = [switchAns EXCEPT ![p] = a]
         /\ IF a.kind # "json" THEN End(p, RequestFailure(a))
            ELSE IF switch_org_accepts(a) THEN Goto(p, "create_api_token")
            ELSE End(p, "SystemExit")
    /\ UNCHANGED <<orgs, keys, files, name, file, org_id, data, api_key,
                   createAns, seen, wrote, hist, args>>

\* a name under which the server may register a key other than the one asked
Renamed == "<renamed>"

\* what POST /api/auth/keys {name: n, role: Admin} can answer, and the keys
\* after it.  A key is scoped to the organization that is active for the
\* user when the request arrives; asked is the name the request carried, by,
\* run and target record who asked for it and the org_id that invocation
\* holds.
IssueKeyAnswers(p, n) ==
    {<<"transport", PyNone, keys>>, <<"garbled", PyNone, keys>>,
     <<"json", Dict({"message"}, Missing, 0), keys>>,
     <<"json", Dict({}, Missing, 0), keys>>}
    \cup {<<"json", KeyRecord(m, NextKeyId),
            keys \cup {[id |-> NextKeyId, name |-> m, asked |-> n,
                        org |-> activeOrg, by |-> p, run |-> Len(hist[p]) + 1,
                        target |-> org_id[p]]}>> : m \in {n, Renamed}}

\* create_api_token after json.loads: the exception raised, or "return"
create_api_token_branch(d) ==
    IF "message" \in d.elems THEN "CreateAPITokenError" ELSE "return"

\* create_api_token: the value returned (None when the body has no 'key')
create_api_token_value(d) == IF "key" \in d.elems THEN d ELSE PyNone

\* json_data['name'] of the issue request for organization name n
api_key_name(n) == n

\* api_key = create_api_token(GRAFANA_NAME, ...)
CreateApiToken(p) ==
    /\ pc[p] = "create_api_token"
    /\ calls' = Count(p, "issue")
    /\ \E ans \in IssueKeyAnswers(p, api_key_name(name[p])) :
         /\ keys' = ans[3]
         /\ IF ans[1] # "json"
            THEN End(p, RequestFailure([kind |-> ans[1]])) /\ UNCHANGED api_key
            ELSE IF create_api_token_branch(ans[2]) = "CreateAPITokenError"
                 THEN End(p, "SystemExit") /\ UNCHANGED api_key
            ELSE Goto(p, "open_file")
                 /\ api_key' = [api_key EXCEPT ![p] = create_api_token_value(ans[2])]
    /\ UNCHANGED <<orgs, activeOrg, files, name, file, org_id, data,
                   createAns, switchAns, seen, wrote, hist, args>>

\* with API_KEY_FILE.open('w') as file: the file is created or truncated,
\* or open raises OSError
\* mutant: a failed open asks for another key
OpenFile_reissues_on_error(p) ==
    /\ pc[p] = "open_file"
    /\ \/ Goto(p, "dump_file") /\ files' = [files EXCEPT ![file[p]] = NonJson]
       \/ Goto(p, "create_api_token") /\ UNCHANGED files
    /\ UNCHANGED <<remoteVars, name, file, org_id, data, api_key, calls,
                   createAns, switchAns, seen, wrote, hist, args>>

OpenFile(p) ==
    /\ pc[p] = "open_file"
    /\ \/ Goto(p, "dump_file") /\ files' = [files EXCEPT ![file[p]] = NonJson]
       \/ End(p, "OSError") /\ UNCHANGED files
    /\ UNCHANGED <<remoteVars, name, file, org_id, data, api_key, calls,
                   createAns, switchAns, seen, wrote, hist, args>>

\* the text json.dump wrote replaces the content of the file
\* mutant: the buffered text is never flushed to the file
dump_keeps_old_content(old, v) == old

dump_content(old, v) == json_dump(v)

\* json.dump(api_key, file, sort_keys=True, indent=4) and the close
DumpFile(p) ==
    /\ pc[p] = "dump_file"
    /\ files' = [files EXCEPT ![file[p]] = dump_content(@, api_key[p])]
    /\ wrote' = [wrote EXCEPT ![p] = @ + 1]
    /\ Goto(p, "verify")
    /\ UNCHANGED <<remoteVars, name, file, org_id, data, api_key, calls,
                   createAns, switchAns, seen, hist, args>>

\* api_exists = check_api_key_file(...) after the write, and the status
VerifyFile(p) ==
    /\ pc[p] = "verify"
    /\ LET r == check_api_key_file(name[p], files[file[p]]) IN
           IF r = "True" THEN End(p, "API key created")
           ELSE IF r = "False" THEN End(p, "API failed to create")
           ELSE End(p, r)
    /\ UNCHANGED <<remoteVars, files, name, file, org_id, data, api_key, calls,
                   createAns, switchAns, seen, wrote, hist, args>>

Unread == Val("unread", {}, Missing, 0)

\* the script is run again with the same arguments after it has ended
Rerun(p) ==
    /\ pc[p] = "done"
    /\ Len(hist[p]) + 1 < MaxRuns
    /\ hist' = [hist EXCEPT ![p] =
                   Append(@, [outcome |-> outcome[p], wrote |-> wrote[p]])]
    /\ pc' = [pc EXCEPT ![p] = "check_arguments"]
    /\ outcome' = [outcome EXCEPT ![p] = "none"]
    /\ org_id' = [org_id EXCEPT ![p] = None]
    /\ data' = [data EXCEPT ![p] = <<>>]
    /\ api_key' = [api_key EXCEPT ![p] = PyNone]
    /\ calls' = [calls EXCEPT ![p] = NoCalls]
    /\ createAns' = [createAns EXCEPT ![p] = NoAnswer]
    /\ switchAns' = [switchAns EXCEPT ![p] = NoAnswer]
    /\ seen' = [seen EXCEPT ![p] = Unread]
    /\ wrote' = [wrote EXCEPT ![p] = 0]
    /\ UNCHANGED <<remoteVars, files, name, file, args>>

(***************************************************************************)
(* Initial states and specifications                                       *)
(***************************************************************************)
MainOrg == [id |-> 1, name |-> MainOrgName]

\* the server before the first invocation: Main Org. alone, or with
\* organizations created earlier
InitOrgs ==
    {{MainOrg},
     {MainOrg, [id |-> 2, name |-> "acme"]},
     {MainOrg, [id |-> 2, name |-> "trusted"], [id |-> 3, name |-> "acme"]}}

InitLocals ==
    /\ org_id = [p \in Procs |-> None]
    /\ data = [p \in Procs |-> <<>>]
    /\ api_key = [p \in Procs |-> PyNone]
    /\ outcome = [p \in Procs |-> "none"]
    /\ calls = [p \in Procs |-> NoCalls]
    /\ createAns = [p \in Procs |-> NoAnswer]
    /\ switchAns = [p \in Procs |-> NoAnswer]
    /\ seen = [p \in Procs |-> Unread]
    /\ wrote = [p \in Procs |-> 0]
    /\ hist = [p \in Procs |-> <<>>]
    /\ args = [p \in Procs |-> <<>>]

InitRemote ==
    /\ orgs \in InitOrgs
    /\ activeOrg = MainOrg.id
    /\ keys = {}

\* two invocations started together: p1 for acme on f1, p2 for either name
\* on either file
Init ==
    /\ InitRemote
    /\ InitLocals
    /\ pc = [p \in Procs |-> "check_arguments"]
    /\ name \in {f \in [Procs -> Names] : f["p1"] = "acme"}
    /\ file \in {f \in [Procs -> Paths] : f["p1"] = "f1"}
    /\ files \in {f \in [Paths -> {Absent, StoredRecord("acme"), StoredRecord("trusted")}] :
                     f["f2"] = Absent}

Main(p) ==
    \/ CheckArguments(p)
    \/ CheckLocal(p)
    \/ PostOrg(p)
    \/ GetOrgs(p)
    \/ ScanOrgs(p)
    \/ SwitchOrg(p)
    \/ CreateApiToken(p)
    \/ OpenFile(p)
    \/ DumpFile(p)
    \/ VerifyFile(p)

Next == \E p \in Procs : Main(p)

Spec == Init /\ [][Next]_vars

\* one invocation slot, run again and again on the same arguments; the
\* store file starts with any content
InitSeq ==
    /\ InitRemote
    /\ InitLocals
    /\ pc = [p \in Procs |-> IF p = "p1" THEN "check_arguments" ELSE "off"]
    /\ name \in {f \in [Procs -> Names] : f["p2"] = "acme"}
    /\ file \in {f \in [Procs -> Paths \cup {NoFile}] : f["p1"] # "f2" /\ f["p2"] = "f2"}
    /\ files \in {f \in [Paths -> FileContents] : f["f2"] = Absent}

NextSeq == \E p \in Procs : Main(p) \/ Rerun(p)

SpecSeq == InitSeq /\ [][NextSeq]_vars

\* longest argument list
MaxArgs == 4

ArgTokens == {"-h", "-n", "-f", "-u", "acme", "f1"}

ArgLists == UNION {[1..k -> ArgTokens] : k \in 0..MaxArgs}

\* GRAFANA_NAME = 'trusted'
DefaultName == "trusted"

\* one invocation from its first statement, with any argument list; the
\* file f1 is absent or holds a record for the default name, no other file
\* exists, and the server holds Main Org. and acme
InitArgs ==
    /\ orgs = {MainOrg, [id |-> 2, name |-> "acme"]}
    /\ activeOrg = MainOrg.id
    /\ keys = {}
    /\ org_id = [p \in Procs |-> None]
    /\ data = [p \in Procs |-> <<>>]
    /\ api_key = [p \in Procs |-> PyNone]
    /\ outcome = [p \in Procs |-> "none"]
    /\ calls = [p \in Procs |-> NoCalls]
    /\ createAns = [p \in Procs |-> NoAnswer]
    /\ switchAns = [p \in Procs |-> NoAnswer]
    /\ seen = [p \in Procs |-> Unread]
    /\ wrote = [p \in Procs |-> 0]
    /\ hist = [p \in Procs |-> <<>>]
    /\ pc = [p \in Procs |-> IF p = "p1" THEN "parse_args" ELSE "off"]
    /\ name = [p \in Procs |-> DefaultName]
    /\ file = [p \in Procs |-> NoFile]
    /\ files \in {[f \in Paths \cup ArgTokens |-> IF f = "f1" THEN c ELSE Absent] :
                     c \in {Absent, StoredRecord(DefaultName)}}
    /\ args \in {a \in [Procs -> ArgLists] : a["p2"] = <<>>}

NextArgs == \E p \in Procs : ParseArgs(p) \/ Main(p)

\* a started process keeps running: every request and file operation returns
SpecArgs == InitArgs /\ [][NextArgs]_vars /\ WF_vars(NextArgs)

(***************************************************************************)
(* Claims                                                                  *)
(***************************************************************************)
\* a content that is a record with 'key' and 'name' fields
IsRecord(c) == c.kind = "object" /\ {"key", "name"} \subseteq c.elems

Succeeded(p) == outcome[p] \in {"API key already exists", "API key created"}

Failed(p) == pc[p] = "done" /\ ~ Succeeded(p)

KeysOfRun(p, r) == {k \in keys : k.by = p /\ k.run = r}

ThisRun(p) == Len(hist[p]) + 1

\* C1: when the first local check of main reads a record with 'key' and
\* 'name' whose name is the organization name, main has ended with the status
\* 'API key already exists', this run has sent no request and issued no key,
\* and the store file holds what was read.
C1_ShortCircuit ==
    \A p \in Procs :
        (seen[p] # Unread /\ IsRecord(seen[p]) /\ seen[p].name = name[p])
        => /\ pc[p] = "done"
           /\ outcome[p] = "API key already exists"
           /\ calls[p] = NoCalls
           /\ KeysOfRun(p, ThisRun(p)) = {}
           /\ wrote[p] = 0
           /\ files[file[p]] = seen[p]

C1_Witness ==
    \E p \in Procs :
        /\ IsRecord(seen[p]) /\ seen[p].name = name[p]
        /\ outcome[p] = "API key already exists"

\* the runs of slot p so far, the current one last
Runs(p) == Append(hist[p], [outcome |-> outcome[p], wrote |-> wrote[p]])

RECURSIVE SumWrote(_)
SumWrote(h) == IF h = <<>> THEN 0 ELSE Head(h).wrote + SumWrote(Tail(h))

\* C2 (as stated): over the sequential runs of one slot at most one key is
\* issued and the store file is written at most once, and every run after
\* one that ended 'API key created' ends 'API key already exists'.
C2_AtMostOneKeyEver ==
    \A p \in Procs :
        /\ Cardinality({k \in keys : k.by = p}) <= 1
        /\ SumWrote(Runs(p)) <= 1
        /\ \A i \in 1..Len(hist[p]) :
               hist[p][i].outcome = "API key created"
               => \A j \in (i + 1)..Len(Runs(p)) :
                      Runs(p)[j].outcome \in {"none", "API key already exists"}

\* C2 (amended): once a run has ended 'API key created', every later run
\* issues no key, does not write the store file and, when it ends, ends
\* 'API key already exists'; so at most one run ends 'API key created'.
C2_OnceCreatedNothingMore ==
    \A p \in Procs :
        \A i \in 1..Len(hist[p]) :
            hist[p][i].outcome = "API key created"
            => \A j \in (i + 1)..Len(Runs(p)) :
                   /\ Runs(p)[j].outcome \in {"none", "API key already exists"}
                   /\ Runs(p)[j].wrote = 0
                   /\ KeysOfRun(p, j) = {}
                   /\ j = ThisRun(p) => calls[p] = NoCalls

C2_Witness ==
    \E p \in Procs :
        /\ Len(hist[p]) >= 1
        /\ hist[p][1].outcome = "API key created"
        /\ pc[p] = "done"
        /\ outcome[p] = "API key already exists"

\* C3 (as stated): every key issued is scoped to the organization that the
\* issuing invocation resolved with post_org, concurrent invocations for
\* other organizations included.
C3_KeyScopedToResolvedOrg == \A k \in keys : k.org = k.target

\* C4: when create answered 'Organization name taken' and the list answer
\* holds an entry named as requested, post_org has sent one list request
\* and returns the id of a listed entry with exactly that name, whatever
\* else the list holds and in whatever order.
C4_LookupReturnsListedId ==
    [][\A p \in Procs :
          (/\ pc[p] = "scan_orgs"
           /\ pc'[p] # "scan_orgs"
           /\ \E i \in 1..Len(data[p]) : data[p][i].name = name[p])
          => /\ createAns[p].msg = MsgTaken
             /\ calls'[p].list = 1
             /\ org_id'[p] # None
             /\ \E i \in 1..Len(data[p]) :
                    data[p][i].name = name[p] /\ data[p][i].id = org_id'[p]]_vars

C4_Witness ==
    \E p \in Procs :
        /\ pc[p] = "switch_org"
        /\ createAns[p].msg = MsgTaken
        /\ calls[p].list = 1
        /\ org_id[p] = 3
        /\ [id |-> 3, name |-> name[p]] \in orgs

\* post_org has returned an id to main
Resolved(p) ==
    /\ pc[p] \in {"switch_org", "create_api_token", "open_file", "dump_file",
                  "verify", "done"}
    /\ org_id[p] # None

\* C5: however invocations for one organization name interleave, the server
\* holds at most one organization of a name, and all invocations to which
\* post_org returned an id hold the same id.
C5_RaceConvergesOnOneOrg ==
    /\ \A n \in Names : Cardinality(OrgNamed(n)) <= 1
    /\ \A p, q \in Procs :
           (name[p] = name[q] /\ Resolved(p) /\ Resolved(q))
           => org_id[p] = org_id[q]

C5_Witness ==
    \E p, q \in Procs :
        /\ p # q /\ name[p] = name[q]
        /\ Resolved(p) /\ createAns[p].msg = MsgCreated
        /\ Resolved(q) /\ createAns[q].msg = MsgTaken

C7_NotFoundStopsWorkflow ==
    \A p \in Procs :
        (/\ createAns[p].msg = MsgTaken
         /\ calls[p].list = 1
         /\ pc[p] \notin {"get_orgs", "scan_orgs"}
         /\ org_id[p] = None)
        => /\ calls[p].switch = 0
           /\ calls[p].issue = 0
           /\ wrote[p] = 0
           /\ ~ Succeeded(p)

\* C8 (as stated): when the create answer carries a message that is none of
\* the three the script knows, no switch request, no issue request and no
\* store write follow and no success is returned.
C8_UnrecognizedStopsWorkflow ==
    \A p \in Procs :
        (/\ createAns[p].kind = "json"
         /\ createAns[p].msg \notin {Missing, MsgCreated, MsgTaken, MsgInvalid})
        => /\ calls[p].switch = 0
           /\ calls[p].issue = 0
           /\ wrote[p] = 0
           /\ ~ Succeeded(p)

\* C9: an issue request is sent only by an invocation whose switch request
\* was answered 'Active organization changed'; an invocation whose switch
\* request got any other answer has ended in failure, has sent no issue
\* request and has not written the store file.
C9_IssueOnlyAfterConfirmedSwitch ==
    \A p \in Procs :
        /\ (calls[p].issue > 0 \/ pc[p] = "create_api_token")
           => switchAns[p] = Json(MsgChanged, 0)
        /\ switchAns[p] \notin {NoAnswer, Json(MsgChanged, 0)}
           => /\ Failed(p)
              /\ calls[p].issue = 0
              /\ KeysOfRun(p, ThisRun(p)) = {}
              /\ wrote[p] = 0

C9_Witness ==
    \E p, q \in Procs :
        /\ calls[p].issue = 1 /\ switchAns[p].msg = MsgChanged
        /\ switchAns[q] = Json(Missing, 0) /\ pc[q] = "done"

\* C10 (as stated): for every content of the store file that is not a record
\* with 'key' and 'name', the local check raises nothing and main goes on
\* to provisioning (its next step is the create request).
C10_MalformedFileIsAbsent ==
    \A p \in Procs :
        (seen[p] # Unread /\ ~ IsRecord(seen[p]))
        => /\ outcome[p] # "TypeError"
           /\ pc[p] = "done" => calls[p].create = 1

\* C11: once main has written a record with 'key' and 'name' to the store
\* file, check_api_key_file on that file answers True for the name of the
\* record and False for every other name.
C11_StoreRoundTrip ==
    \A p \in Procs :
        (pc[p] = "verify" /\ {"key", "name"} \subseteq api_key[p].elems)
        => \A n \in Names \cup {Renamed} :
               check_api_key_file(n, files[file[p]])
                   = IF n = api_key[p].name THEN "True" ELSE "False"

C11_Witness ==
    \E p \in Procs :
        /\ pc[p] = "verify"
        /\ wrote[p] = 1
        /\ api_key[p] = KeyRecord(name[p], api_key[p].id)
        /\ IsRecord(files[file[p]])

\* C12 (as stated): when the issue answer carries neither 'message' nor
\* 'key', the invocation ends in failure at the issuing step and does not
\* write the store file.  (A failed or rejected issue request leaves api_key
\* None as well and meets the conclusion.)
C12_MalformedIssueWritesNothing ==
    \A p \in Procs :
        (/\ calls[p].issue = 1
         /\ pc[p] # "create_api_token"
         /\ api_key[p] = PyNone)
        => /\ wrote[p] = 0
           /\ ~ Succeeded(p)

\* C14 (as stated): against a server that holds no organization of the name
\* and with no store file, a run that ends 'API key created' has had a key
\* issued under the organization name with '_apikey' appended, and the store
\* file holds the record of that key.
C14_KeyNamedOrgApikey ==
    \A p \in Procs :
        (/\ seen[p] = Absent
         /\ createAns[p].msg = MsgCreated
         /\ outcome[p] = "API key created")
        => \E k \in KeysOfRun(p, ThisRun(p)) :
               /\ k.asked = name[p] \o "_apikey"
               /\ api_key[p] = KeyRecord(k.name, k.id)
               /\ files[file[p]] = json_dump(api_key[p])

\* an answer that makes the workflow fail was received
FailureAnswered(p) ==
    \/ createAns[p].kind \in {"transport", "garbled"}
    \/ createAns[p].kind = "json" /\ createAns[p].msg \in {Missing, MsgInvalid}
    \/ switchAns[p] \notin {NoAnswer, Json(MsgChanged, 0)}

StageOrder ==
    <<"parse_args", "check_arguments", "check_local", "post_org", "get_orgs",
      "scan_orgs", "switch_org", "create_api_token", "open_file", "dump_file",
      "verify", "done">>

Rank(stage) == CHOOSE i \in 1..Len(StageOrder) : StageOrder[i] = stage

Exceptions ==
    {"SystemExit", "IndexError", "TypeError", "KeyError", "JSONDecodeError",
     "OSError"}

\* C20 (as stated): every invocation that has ended has ended in one of
\* three ways: already provisioned, key created, or failed.
C20_ThreeTerminalOutcomes ==
    \A p \in Procs :
        pc[p] = "done"
        => \/ outcome[p] \in {"API key already exists", "API key created"}
           \/ outcome[p] \in Exceptions \cup {"API failed to create"}

\* C20 (amended): provided every request and file operation returns, every
\* invocation ends, and it ends in exactly one of four ways: already
\* provisioned, key created, failed, or help printed with exit code 0.  Each
\* pass of the argument loop that goes on drops exactly one argument, main
\* never goes back to an earlier stage, and an ended invocation stays ended
\* with its outcome.
C20_TerminatesOnce ==
    /\ <>(\A p \in Procs : pc[p] \in {"done", "off"})
    /\ [][\A p \in Procs :
            /\ pc'[p] # pc[p] => Rank(pc'[p]) > Rank(pc[p])
            /\ (/\ pc[p] = "parse_args" /\ pc'[p] = "parse_args"
                /\ <<name[p], file[p], args[p]>>' # <<name[p], file[p], args[p]>>)
               => args'[p] = Tail(args[p])
            /\ pc[p] = "done" => (pc'[p] = "done" /\ outcome'[p] = outcome[p])
            /\ pc'[p] = "done"
               => outcome'[p] \in Exceptions \cup
                      {"API key already exists", "API key created",
                       "API failed to create", "help"}]_vars

C20_Witness ==
    \E p \in Procs :
        /\ pc[p] = "done"
        /\ args[p] = <<>>
        /\ name[p] = "acme" /\ file[p] = "f1"
        /\ outcome[p] = "API key created"

Endpoints == {"create", "list", "switch", "issue"}

\* C16: an invocation sends each of the four requests (create organization,
\* list organizations, switch organization, issue key) at most once, on the
\* failing paths too.
C16_EachRequestAtMostOnce ==
    \A p \in Procs : \A e \in Endpoints : calls[p][e] <= 1

C16_Witness ==
    \E p, q \in Procs :
        /\ pc[p] = "done" /\ \A e \in Endpoints : calls[p][e] = 1
        /\ pc[q] = "done" /\ outcome[q] = "SystemExit"
        /\ calls[q] = [NoCalls EXCEPT !["create"] = 1, !["list"] = 1]

\* the invocation ended while resolving the organization, switching to it or
\* issuing the key: it received a failing answer, or its last request was
\* the list request, or the issue request returned no value
FailedBeforeWrite(p) ==
    /\ pc[p] = "done"
    /\ \/ FailureAnswered(p)
       \/ calls[p]["list"] = 1 /\ calls[p]["switch"] = 0
       \/ /\ calls[p]["issue"] = 1
          /\ api_key[p] = PyNone
          /\ outcome[p] \in {"SystemExit", "JSONDecodeError"}

\* C17: when an invocation has ended while resolving the organization,
\* switching to it or issuing the key, the store file holds exactly what the
\* invocation read from it in its first check, and the invocation wrote
\* nothing.
C17_FailureLeavesStore ==
    \A p \in Procs :
        FailedBeforeWrite(p)
        => /\ seen[p] # Unread
           /\ files[file[p]] = seen[p]
           /\ wrote[p] = 0

C17_Witness ==
    \E p \in Procs :
        /\ FailedBeforeWrite(p)
        /\ calls[p]["issue"] = 1
        /\ name[p] = "acme"
        /\ seen[p] = StoredRecord("trusted")
        /\ files[file[p]] = StoredRecord("trusted")

\* the issue request of this invocation has succeeded: the server holds a
\* key it issued to this invocation
Issued(p) == KeysOfRun(p, ThisRun(p)) # {}

\* C18: once the issue request of an invocation has returned, no step of
\* that invocation sends a request, and the keys it was issued stay on the
\* server, whatever the write and the verification do.
C18_NoRequestAfterIssue ==
    [][\A p \in Procs :
          Issued(p)
          => /\ calls'[p] = calls[p]
             /\ KeysOfRun(p, ThisRun(p)) \subseteq keys']_vars

C18_Witness ==
    \E p, q \in Procs :
        /\ Issued(p) /\ outcome[p] = "OSError"
        /\ Issued(q) /\ outcome[q] = "API failed to create"
        /\ KeysOfRun(p, ThisRun(p)) # {}
        /\ KeysOfRun(q, ThisRun(q)) # {}

\* C19: when the check_api_key_file call after the write returns False, main
\* ends by returning the status 'API failed to create', which is not an
\* exception, and the exit code is not 0.
C19_VerifyFalseIsAStatus ==
    [][\A p \in Procs :
          (/\ pc[p] = "verify" /\ pc'[p] # "verify"
           /\ check_api_key_file(name[p], files[file[p]]) = "False")
          => /\ pc'[p] = "done"
             /\ outcome'[p] = "API failed to create"
             /\ outcome'[p] \notin Exceptions
             /\ exit_code(outcome'[p]) # 0]_vars

C19_Witness ==
    \E p \in Procs :
        /\ pc[p] = "done" /\ outcome[p] = "API failed to create"
        /\ api_key[p] = KeyRecord(Renamed, api_key[p].id)
        /\ IsRecord(files[file[p]]) /\ files[file[p]].name # name[p]
        /\ files[file[p]] = json_dump(api_key[p])

====
